---- MODULE Spec2Model ----
(***************************************************************************)
(* Model of package relname (src/relname.go): CleanString, the three Name  *)
(* constructors, the Name accessors and NewRelatedName.                    *)
(*                                                                         *)
(* A Go string is modelled as a sequence of one-character strings.  Every  *)
(* character used is ASCII, so byte offsets and character offsets agree.   *)
(* The package is a library of functions without shared state: a behaviour *)
(* is one call, whose arguments Init draws and whose action applies the    *)
(* function and records what it returned.                                  *)
(***************************************************************************)
EXTENDS Integers, Sequences, FiniteSets, TLC

VARIABLES pc, fn, args, n, name, rn, err, out

vars == <<pc, fn, args, n, name, rn, err, out>>

(***************************************************************************)
(* Bounds of the argument sets.                                            *)
(***************************************************************************)
MaxLen == 4

MaxPartLen == 3

MaxPart3Len == 2

MaxGenLen == 3

MaxCodeLen == 4

MaxRelLen == 1

\* uint16 holds values modulo 2^16.
U16 == 65536

Chars == {"a", "b", " ", "\t", "\n", "\r"}

PartChars == {"a", " ", "\t"}

CodeChars == {"a", "z", "A", " "}

Strs(C, k) == UNION {[1..j -> C] : j \in 0..k}

\* A string of U16 - 1 letters: the shortest part that, joined to one more
\* byte, no longer fits the uint16 offsets.
LongStr == SubSeq([i \in 1..(U16 - 1) |-> "a"], 1, U16 - 1)

A1 == <<"a">>

ToU16(x) == x % U16

(***************************************************************************)
(* CleanString                                                             *)
(***************************************************************************)
\* The class \s of Go's regexp syntax: [\t\n\f\r ].
reWhitespace == {" ", "\t", "\n", "\f", "\r"}

\* reWhitespace.ReplaceAllString(s, " "): every maximal run of whitespace
\* becomes one space.  A character survives if it is not whitespace or if it
\* opens a run; a surviving whitespace character becomes a space.
ReplaceAllString(s) ==
  LET marked == [i \in 1..Len(s) |->
                   [c    |-> IF s[i] \in reWhitespace THEN " " ELSE s[i],
                    keep |-> \/ s[i] \notin reWhitespace
                             \/ i = 1
                             \/ s[i-1] \notin reWhitespace]]
      Keep(e) == e.keep
      kept == SelectSeq(marked, Keep)
  IN  [i \in 1..Len(kept) |-> kept[i].c]

\* A variant that replaces each whitespace character by a space without
\* collapsing runs (the pattern \s instead of \s+).
CleanString_NoCollapse(s0) ==
  LET s == [i \in 1..Len(s0) |-> IF s0[i] \in reWhitespace THEN " " ELSE s0[i]]
      last0 == Len(s)
  IN  IF last0 > 0 /\ s[1] = " " /\ last0 = 1
        THEN <<>>
        ELSE LET first == IF last0 > 0 /\ s[1] = " " THEN 1 ELSE 0
                 last  == IF last0 > 0 /\ s[last0] = " " THEN last0 - 1 ELSE last0
             IN  SubSeq(s, first + 1, last)

CleanString(s0) ==
  LET s == ReplaceAllString(s0)
      last0 == Len(s)
  IN  IF last0 > 0 /\ s[1] = " " /\ last0 = 1
        THEN <<>>
        ELSE LET first == IF last0 > 0 /\ s[1] = " " THEN 1 ELSE 0
                 last  == IF last0 > 0 /\ s[last0] = " " THEN last0 - 1 ELSE last0
             IN  SubSeq(s, first + 1, last)

(***************************************************************************)
(* Name                                                                    *)
(***************************************************************************)
\* Name{}: the zero value.
ZeroName == [text |-> <<>>, boSurname |-> 0, eoSurname |-> 0]

\* The nil error.
NoErr == [type |-> "nil"]

EmptyPartError(numArgs, a1, a2, a3) ==
  [type |-> "EmptyPartError", NumArgs |-> numArgs,
   Arg1 |-> a1, Arg2 |-> a2, Arg3 |-> a3]

NewName1(text) ==
  LET t == CleanString(text)
  IN  IF t = <<>>
        THEN [name |-> ZeroName, err |-> EmptyPartError(1, text, <<>>, <<>>)]
        ELSE [name |-> [text |-> text, boSurname |-> 0,
                        eoSurname |-> ToU16(Len(text))],
              err |-> NoErr]

\* A variant that rejects only when both parts are blank (&& for ||).
NewName2_And(forename, surname) ==
  LET f == CleanString(forename)
      s == CleanString(surname)
      text == f \o <<" ">> \o s
  IN  IF f = <<>> /\ s = <<>>
        THEN [name |-> ZeroName,
              err |-> EmptyPartError(2, forename, surname, <<>>)]
        ELSE [name |-> [text |-> text, boSurname |-> ToU16(Len(f) + 1),
                        eoSurname |-> ToU16(Len(text))],
              err |-> NoErr]

NewName2(forename, surname) ==
  LET f == CleanString(forename)
      s == CleanString(surname)
      text == f \o <<" ">> \o s
  IN  IF f = <<>> \/ s = <<>>
        THEN [name |-> ZeroName,
              err |-> EmptyPartError(2, forename, surname, <<>>)]
        ELSE [name |-> [text |-> text, boSurname |-> ToU16(Len(f) + 1),
                        eoSurname |-> ToU16(Len(text))],
              err |-> NoErr]

NewName3(forename, surname, generation) ==
  LET f == CleanString(forename)
      s == CleanString(surname)
      g == CleanString(generation)
      text == f \o <<" ">> \o s
  IN  IF f = <<>> \/ s = <<>> \/ g = <<>>
        THEN [name |-> ZeroName,
              err |-> EmptyPartError(3, forename, surname, generation)]
        ELSE [name |-> [text |-> text \o <<" ">> \o g,
                        boSurname |-> ToU16(Len(f) + 1),
                        eoSurname |-> ToU16(Len(text))],
              err |-> NoErr]

(***************************************************************************)
(* Accessors.  A slice expression s[lo:hi] panics when lo > hi or          *)
(* hi > len(s); Panic stands for the run-time panic and is no string (its  *)
(* element is not a character).                                            *)
(***************************************************************************)
Panic == <<"panic: slice bounds out of range">>

Slice(s, lo, hi) ==
  IF lo > hi \/ hi > Len(s) THEN Panic ELSE SubSeq(s, lo + 1, hi)

Concat(x, y) == IF x = Panic \/ y = Panic THEN Panic ELSE x \o y

Common(nm) == nm.text

FileAs(nm) ==
  IF nm.boSurname = 0
    THEN nm.text
    ELSE LET faName == Concat(Concat(Slice(nm.text, nm.boSurname, nm.eoSurname),
                                     <<",", " ">>),
                              Slice(nm.text, 0, ToU16(nm.boSurname - 1)))
         IN  IF nm.eoSurname < ToU16(Len(nm.text))
               THEN Concat(Concat(faName, <<" ">>),
                           Slice(nm.text, ToU16(nm.eoSurname + 1), Len(nm.text)))
               ELSE faName

Surname(nm) == Slice(nm.text, nm.boSurname, nm.eoSurname)

Forename(nm) ==
  IF nm.boSurname = 0
    THEN <<>>
    ELSE Slice(nm.text, 0, ToU16(nm.boSurname - 1))

Generation(nm) ==
  IF nm.eoSurname = ToU16(Len(nm.text))
    THEN <<>>
    ELSE Slice(nm.text, ToU16(nm.eoSurname + 1), Len(nm.text))

NumParts(nm) ==
  IF nm.boSurname = 0
    THEN IF nm.text = <<>> THEN 0 ELSE 1
    ELSE IF nm.eoSurname = ToU16(Len(nm.text)) THEN 2 ELSE 3

String(nm) == nm.text

(***************************************************************************)
(* RelatedName                                                             *)
(***************************************************************************)
\* The zero byte of an unset relCode.
NUL == "NUL"

\* RelatedName{}: the zero value.
ZeroRelatedName == [Name |-> ZeroName, relCode |-> <<NUL, NUL, NUL>>]

LowerAZ == {"a", "b", "c", "d", "e", "f", "g", "h", "i", "j", "k", "l", "m",
            "n", "o", "p", "q", "r", "s", "t", "u", "v", "w", "x", "y", "z"}

\* reRelator.MatchString(c) for ^[a-z][a-z][a-z]$
reRelatorMatch(c) == Len(c) = 3 /\ \A i \in 1..3 : c[i] \in LowerAZ

BadRelatorCode(nm, c) == [type |-> "BadRelatorCode", N |-> nm, C |-> c]

BadName(c) == [type |-> "BadName", C |-> c]

\* A variant that tests the Name before the relator code.
NewRelatedName_NameFirst(nm, relatorCode) ==
  IF NumParts(nm) = 0
    THEN [rn |-> ZeroRelatedName, err |-> BadName(relatorCode)]
    ELSE IF ~reRelatorMatch(relatorCode)
      THEN [rn |-> ZeroRelatedName, err |-> BadRelatorCode(nm, relatorCode)]
      ELSE [rn |-> [Name |-> nm,
                    relCode |-> <<relatorCode[1], relatorCode[2], relatorCode[3]>>],
            err |-> NoErr]

NewRelatedName(nm, relatorCode) ==
  IF ~reRelatorMatch(relatorCode)
    THEN [rn |-> ZeroRelatedName, err |-> BadRelatorCode(nm, relatorCode)]
    ELSE IF NumParts(nm) = 0
      THEN [rn |-> ZeroRelatedName, err |-> BadName(relatorCode)]
      ELSE [rn |-> [Name |-> nm,
                    relCode |-> <<relatorCode[1], relatorCode[2], relatorCode[3]>>],
            err |-> NoErr]

Relator(r) == <<r.relCode[1], r.relCode[2], r.relCode[3]>>

(***************************************************************************)
(* Argument sets                                                           *)
(***************************************************************************)
Args1 == {<<s>> : s \in Strs(Chars, MaxLen)} \cup {<<LongStr>>, <<LongStr \o A1>>}

Args2 == (Strs(PartChars, MaxPartLen) \X Strs(PartChars, MaxPartLen))
           \cup {<<A1, LongStr>>, <<LongStr, A1>>}

\* NewName3 arguments whose lengths fit the offsets, and ones that do not.
ShortArgs3 == Strs(PartChars, MaxPart3Len) \X Strs(PartChars, MaxPart3Len)
                \X Strs(PartChars, MaxGenLen)

LongArgs3 == {<<A1, A1, LongStr>>, <<A1, LongStr, A1>>, <<LongStr, A1, A1>>}

Args3 == ShortArgs3 \cup LongArgs3

\* The Names a caller can hold: the zero value and what the constructors
\* return (with and without an error).
RelParts == Strs(PartChars, MaxRelLen)

NameArgs ==
  {ZeroName}
    \cup {NewName1(t).name : t \in RelParts}
    \cup {NewName2(f, s).name : f \in RelParts, s \in RelParts}
    \cup {NewName3(f, s, g).name : f \in RelParts, s \in RelParts, g \in RelParts}

Codes == Strs(CodeChars, MaxCodeLen)

(***************************************************************************)
(* The state machine                                                       *)
(***************************************************************************)
Init ==
  /\ pc = "call"
  /\ name = ZeroName
  /\ rn = ZeroRelatedName
  /\ err = NoErr
  /\ out = <<>>
  /\ \/ fn = "CleanString" /\ args \in {<<s>> : s \in Strs(Chars, MaxLen)}
          /\ n = ZeroName
     \/ fn = "NewName1" /\ args \in Args1 /\ n = ZeroName
     \/ fn = "NewName2" /\ args \in Args2 /\ n = ZeroName
     \/ fn = "NewName3" /\ args \in Args3 \ LongArgs3 /\ n = ZeroName
     \/ fn = "NewRelatedName" /\ args \in {<<c>> : c \in Codes}
          /\ n \in NameArgs
     \/ fn = "NewName3" /\ args \in Args3 \cap LongArgs3 /\ n = ZeroName

CallCleanString ==
  /\ pc = "call" /\ fn = "CleanString"
  /\ out' = CleanString(args[1])
  /\ pc' = "done"
  /\ UNCHANGED <<fn, args, n, name, rn, err>>

CallNewName1 ==
  /\ pc = "call" /\ fn = "NewName1"
  /\ LET r == NewName1(args[1])
     IN  name' = r.name /\ err' = r.err
  /\ pc' = "done"
  /\ UNCHANGED <<fn, args, n, rn, out>>

CallNewName2 ==
  /\ pc = "call" /\ fn = "NewName2"
  /\ LET r == NewName2(args[1], args[2])
     IN  name' = r.name /\ err' = r.err
  /\ pc' = "done"
  /\ UNCHANGED <<fn, args, n, rn, out>>

CallNewName3 ==
  /\ pc = "call" /\ fn = "NewName3"
  /\ LET r == NewName3(args[1], args[2], args[3])
     IN  name' = r.name /\ err' = r.err
  /\ pc' = "done"
  /\ UNCHANGED <<fn, args, n, rn, out>>

CallNewRelatedName ==
  /\ pc = "call" /\ fn = "NewRelatedName"
  /\ LET r == NewRelatedName(n, args[1])
     IN  rn' = r.rn /\ err' = r.err
  /\ pc' = "done"
  /\ UNCHANGED <<fn, args, n, name, out>>

Next ==
  \/ CallCleanString
  \/ CallNewName1
  \/ CallNewName2
  \/ CallNewName3
  \/ CallNewRelatedName

Spec == Init /\ [][Next]_vars

(***************************************************************************)
(* Properties                                                              *)
(***************************************************************************)
Done(f) == pc = "done" /\ fn = f

Ok == err.type = "nil"

Constructors == {"NewName1", "NewName2", "NewName3"}

Arity == IF fn = "NewName1" THEN 1 ELSE IF fn = "NewName2" THEN 2 ELSE 3

\* The i-th normalized argument of the recorded call.
Norm(i) == CleanString(args[i])

SP == <<" ">>

\* C1: a Name returned without error by NewName1(text) has
\* Common() = CleanString(text) and Surname() = Common().
C1_NewName1StoresCleanText ==
  (Done("NewName1") /\ Ok) =>
     /\ Common(name) = Norm(1)
     /\ Surname(name) = Common(name)

\* The Name a constructor returns for the normalized arguments of the
\* recorded call.
NameOfNormalized ==
  IF fn = "NewName1" THEN NewName1(Norm(1)).name
  ELSE IF fn = "NewName2" THEN NewName2(Norm(1), Norm(2)).name
  ELSE NewName3(Norm(1), Norm(2), Norm(3)).name

\* C2: each constructor returns for raw arguments the same Name (text and
\* both offsets) as for the CleanString-normalized arguments.
C2_WhitespaceTolerance ==
  (pc = "done" /\ fn \in Constructors) => name = NameOfNormalized

\* C3: FileAs() is S + ", " + F for NewName2, S + ", " + F + " " + G for
\* NewName3, Common() for NewName1, and "" for the zero-valued Name.
C3_FileAsFormat ==
  /\ (Done("NewName1") /\ Ok) => FileAs(name) = Common(name)
  /\ (Done("NewName2") /\ Ok) =>
        FileAs(name) = Norm(2) \o <<",", " ">> \o Norm(1)
  /\ (Done("NewName3") /\ Ok) =>
        FileAs(name) = Norm(2) \o <<",", " ">> \o Norm(1) \o SP \o Norm(3)
  /\ FileAs(ZeroName) = <<>>

\* C4: for NewName2 and NewName3 the accessors return the normalized
\* arguments, Common() = String() = the parts joined by single spaces, and
\* the bytes at surnameStart-1 and (three parts) surnameEnd are spaces.
C4_PartsRecovered ==
  /\ (Done("NewName2") /\ Ok) =>
        /\ Forename(name) = Norm(1)
        /\ Surname(name) = Norm(2)
        /\ Generation(name) = <<>>
        /\ Common(name) = Norm(1) \o SP \o Norm(2)
        /\ String(name) = Common(name)
        /\ name.boSurname \in 1..Len(name.text)
        /\ name.text[name.boSurname] = " "
  /\ (Done("NewName3") /\ Ok) =>
        /\ Forename(name) = Norm(1)
        /\ Surname(name) = Norm(2)
        /\ Generation(name) = Norm(3)
        /\ Common(name) = Norm(1) \o SP \o Norm(2) \o SP \o Norm(3)
        /\ String(name) = Common(name)
        /\ name.boSurname \in 1..Len(name.text)
        /\ name.text[name.boSurname] = " "
        /\ name.eoSurname + 1 \in 1..Len(name.text)
        /\ name.text[name.eoSurname + 1] = " "

\* The raw i-th argument as the error records it ("" beyond the arity).
RawArg(i) == IF i <= Arity THEN args[i] ELSE <<>>

\* C5: a constructor fails exactly when some argument is empty after
\* normalization; the error is then an EmptyPartError with the arity and the
\* raw arguments, and the returned Name is the zero value.
C5_EmptyPartFailure ==
  (pc = "done" /\ fn \in Constructors) =>
     /\ (~Ok) <=> (\E i \in 1..Arity : Len(Norm(i)) = 0)
     /\ (~Ok) =>
          /\ err.type = "EmptyPartError"
          /\ err.NumArgs = Arity
          /\ err.Arg1 = RawArg(1) /\ err.Arg2 = RawArg(2) /\ err.Arg3 = RawArg(3)
          /\ name = ZeroName
          /\ NumParts(name) = 0
          /\ Common(name) = <<>> /\ FileAs(name) = <<>> /\ String(name) = <<>>
          /\ Surname(name) = <<>> /\ Forename(name) = <<>>
          /\ Generation(name) = <<>>

\* A constructor failed on a whitespace-only third argument, which the error
\* carries unnormalized.
C5_Witness ==
  /\ Done("NewName3") /\ ~Ok
  /\ Len(args[3]) > 0 /\ Len(Norm(3)) = 0
  /\ Len(Norm(1)) > 0 /\ Len(Norm(2)) > 0
  /\ err.Arg3 = args[3]

\* Exactly three lowercase ASCII letters.
ThreeLower(c) == Len(c) = 3 /\ \A i \in DOMAIN c : c[i] \in LowerAZ

\* C6: NewRelatedName(n, c) gives BadRelatorCode{n, c} when c is not three
\* letters a-z (also for the zero Name), else BadName{c} when n is the zero
\* Name, else no error; a failure returns the zero RelatedName.
C6_RelatedNameOutcome ==
  Done("NewRelatedName") =>
     IF ~ThreeLower(args[1])
       THEN /\ err.type = "BadRelatorCode"
            /\ err.N = n /\ err.C = args[1]
            /\ rn = ZeroRelatedName
       ELSE IF n = ZeroName
         THEN /\ NumParts(n) = 0
              /\ err.type = "BadName" /\ err.C = args[1]
              /\ rn = ZeroRelatedName
         ELSE /\ NumParts(n) > 0
              /\ Ok
              /\ rn.Name = n /\ Relator(rn) = args[1]

\* The zero Name was passed with an invalid code: the code is reported.
C6_Witness ==
  /\ Done("NewRelatedName")
  /\ n = ZeroName /\ Len(args[1]) = 3 /\ ~ThreeLower(args[1])
  /\ err.type = "BadRelatorCode"

\* C7: NumParts() is 1, 2, 3 for a Name returned without error by NewName1,
\* NewName2, NewName3, and 0 only for the zero-valued Name.
C7_NumPartsMatchesConstructor ==
  (pc = "done" /\ fn \in Constructors) =>
     /\ Ok => NumParts(name) = Arity
     /\ NumParts(name) = 0 <=> name = ZeroName
     /\ (~Ok) => NumParts(name) = 0

Accessors(nm) ==
  {Common(nm), FileAs(nm), Surname(nm), Forename(nm), Generation(nm), String(nm)}

\* C8: for arguments of any length a Name returned without error has
\* 0 <= surnameStart <= surnameEnd <= length(text) and no accessor panics;
\* the same holds for the zero-valued Name.
C8_OffsetsInRange ==
  /\ (pc = "done" /\ fn \in Constructors) =>
        /\ 0 <= name.boSurname
        /\ name.boSurname <= name.eoSurname
        /\ name.eoSurname <= Len(name.text)
        /\ Panic \notin Accessors(name)
  /\ Panic \notin Accessors(ZeroName)

\* Whitespace characters: space, tab, newline, carriage return, form feed.
IsSpace(c) == c \in {" ", "\t", "\n", "\r", "\f"}

\* Length of the maximal whitespace-free prefix of a string that starts with
\* a non-whitespace character.
WordLen(s) ==
  CHOOSE k \in 1..Len(s) :
     /\ \A i \in 1..k : ~IsSpace(s[i])
     /\ k = Len(s) \/ IsSpace(s[k + 1])

RECURSIVE Words(_)
\* The maximal non-whitespace runs of s, in order.
Words(s) ==
  IF Len(s) = 0 THEN <<>>
  ELSE IF IsSpace(s[1]) THEN Words(SubSeq(s, 2, Len(s)))
  ELSE <<SubSeq(s, 1, WordLen(s))>> \o Words(SubSeq(s, WordLen(s) + 1, Len(s)))

RECURSIVE JoinWords(_)
\* The words joined by exactly one space each.
JoinWords(ws) ==
  IF Len(ws) = 0 THEN <<>>
  ELSE IF Len(ws) = 1 THEN ws[1]
  ELSE ws[1] \o SP \o JoinWords(Tail(ws))

\* C9: CleanString returns the maximal non-whitespace runs of its input, in
\* order, joined by one space each, without leading or trailing space; empty
\* and all-whitespace inputs give "", an input without whitespace is returned
\* unchanged.
C9_CleanStringCorrect ==
  Done("CleanString") =>
     /\ out = JoinWords(Words(args[1]))
     /\ (\A i \in DOMAIN args[1] : IsSpace(args[1][i])) => out = <<>>
     /\ (\A i \in DOMAIN args[1] : ~IsSpace(args[1][i])) => out = args[1]
     /\ Len(out) > 0 => (out[1] # " " /\ out[Len(out)] # " ")
     /\ \A i \in DOMAIN out : IsSpace(out[i]) => out[i] = " "
     /\ \A i \in 1..(Len(out) - 1) : ~(out[i] = " " /\ out[i + 1] = " ")

\* Two words separated by a run of a tab and a newline came out joined by
\* one space.
C9_Witness ==
  /\ Done("CleanString")
  /\ Len(args[1]) = 4 /\ args[1][2] = "\t" /\ args[1][3] = "\n"
  /\ out = <<"a", " ", "b">>

\* C10: CleanString(CleanString(s)) = CleanString(s).
C10_CleanStringIdempotent ==
  Done("CleanString") => CleanString(out) = out

\* CleanString changed its argument into a non-empty result.
C10_Witness ==
  /\ Done("CleanString")
  /\ Len(out) > 0 /\ Len(out) < Len(args[1])
  /\ \E i \in DOMAIN out : out[i] = " "

\* C11: for every Name returned without error by NewName3(f, s, g),
\* Generation() is a single token: it contains no space and no other
\* whitespace character.
C11_GenerationSingleToken ==
  (Done("NewName3") /\ Ok) =>
     \A i \in DOMAIN Generation(name) : ~IsSpace(Generation(name)[i])

====
